---- MODULE Spec2Model ----
(***************************************************************************)
(* A model of server.py, the GitHub webhook deployment service.            *)
(*                                                                         *)
(* Text is modelled as a sequence of tokens.  The separators the code      *)
(* splits on ("\n", " - ") and the prefixes it strips ("Webhook for ",     *)
(* "Status: ") are tokens of their own, so that split, join and replace    *)
(* act on a message the way str.split, str.join and str.replace do.        *)
(*                                                                         *)
(* Every request is one coroutine on the single asyncio event loop that    *)
(* uvicorn.run starts.  A coroutine gives the loop up only at an await     *)
(* that really suspends (the httpx posts, the end of the request);         *)
(* subprocess.check_output and smtplib block the loop.                     *)
(***************************************************************************)
EXTENDS Integers, Sequences, FiniteSets, TLC

\* Number of webhook deliveries that can be in flight together.
NumRequests == 2

Requests == 1..NumRequests

\* The value of `loop` when no coroutine is running.
NoTask == 0

----------------------------------------------------------------------------
(* Text helpers: str.split, str.join, str.replace, `in`.                   *)

\* sep.join(parts)
RECURSIVE Join(_, _)
Join(parts, sep) ==
    IF parts = <<>> THEN <<>>
    ELSE IF Len(parts) = 1 THEN Head(parts)
    ELSE Head(parts) \o <<sep>> \o Join(Tail(parts), sep)

\* s.split(sep): always at least one part
RECURSIVE Split(_, _)
Split(s, sep) ==
    IF s = <<>> THEN << <<>> >>
    ELSE LET rest == Split(Tail(s), sep) IN
         IF Head(s) = sep THEN << <<>> >> \o rest
         ELSE << <<Head(s)>> \o Head(rest) >> \o Tail(rest)

\* s.replace(tok, '')
Replace(s, tok) == SelectSeq(s, LAMBDA t : t # tok)

\* sub in s
Contains(s, sub) ==
    \E i \in 0..(Len(s) - Len(sub)) : SubSeq(s, i + 1, i + Len(sub)) = sub

\* lines[2:] of a Python list
From(parts, n) == SubSeq(parts, n + 1, Len(parts))

----------------------------------------------------------------------------
(* The project registry loaded from projects.json, and what can be sent.   *)

\* notifications of a project: a dict, null, or the key left out.  An empty
\* destination stands for a key that is absent or maps to "".
Notif(kind, email, slack, mattermost) ==
    [kind |-> kind, email |-> email, slack_webhook |-> slack,
     mattermost_webhook |-> mattermost]

\* The config {}: no key at all.  Every member is absent, which the record
\* shows as empty.
EmptyConfig ==
    [name |-> <<>>, directory |-> "", secret_token |-> "", target_branch |-> "",
     commands |-> << >>, notifications |-> Notif("omitted", "", "", "")]

Registry ==
    [demo |->
        [name |-> <<"demo">>, directory |-> "/srv/demo",
         secret_token |-> "s3cret", target_branch |-> "refs/heads/main",
         commands |-> << <<"git", "pull">>, <<"make", "deploy">> >>,
         notifications |-> Notif("dict", "ops@example.org", "https://slack/T1",
                                 "https://mm/hooks/1")],
     multi |->
        [name |-> <<"a", "\n", "b">>, directory |-> "/srv/multi",
         secret_token |-> "k2", target_branch |-> "refs/heads/main",
         commands |-> << <<"echo", "hi">> >>,
         notifications |-> Notif("dict", "", "https://slack/T2",
                                 "https://mm/hooks/2")],
     nullnotif |->
        [name |-> <<"quiet">>, directory |-> "/srv/quiet",
         secret_token |-> "k2", target_branch |-> "refs/heads/main",
         commands |-> << <<"true">> >>,
         notifications |-> Notif("null", "", "", "")],
     broken |->
        [name |-> <<"broken">>, directory |-> "/srv/broken",
         secret_token |-> "k2", target_branch |-> "refs/heads/main",
         commands |-> << >>,
         notifications |-> Notif("dict", "", "", "")],
     dash |->
        [name |-> <<"acme", " - ", "api">>, directory |-> "/srv/acme",
         secret_token |-> "k2", target_branch |-> "refs/heads/main",
         commands |-> << <<"true">> >>,
         notifications |-> Notif("dict", "", "https://slack/T3",
                                 "https://mm/hooks/3")],
     empty |-> EmptyConfig]

\* Identifiers a caller can put in the path: the registered ones and one more.
ProjectNames == DOMAIN Registry \cup {"ghost"}

\* CONFIG_FILE after somebody edited it while the server runs.
EditedRegistry == [Registry EXCEPT !.demo.secret_token = "k2"]

\* What open(CONFIG_FILE) and json.load find at the time of a health request:
\* the file as it was at startup, an edited file, no file, or no JSON.
ConfigFileStates ==
    {[error |-> <<>>, content |-> c] : c \in {Registry, EditedRegistry}}
    \cup
    {[error |-> e, content |-> Registry] :
        e \in { <<"[Errno 2] No such file or directory: ", "'",
                  "projects.json", "'">>,
                <<"Expecting value: line 1 column 1 (char 0)">> }}

Secrets == {"s3cret", "k2"}

\* Request bodies: a push to the target branch, a push to another branch, an
\* object without ref, a JSON list, and bytes that are no JSON.
Bodies ==
    { <<"{", "ref", "refs/heads/main", "}">>,
      <<"{", "ref", "refs/heads/dev", "}">>,
      <<"{", "}">>,
      <<"[", "]">>,
      <<"{", "ref">> }

\* json.loads of the body, as far as process_webhook looks at it.
JsonLoads(body) ==
    IF body = <<"{", "}">>
    THEN [kind |-> "object", has_ref |-> FALSE, ref |-> ""]
    ELSE IF Len(body) = 4 /\ body[1] = "{" /\ body[2] = "ref" /\ body[4] = "}"
    THEN [kind |-> "object", has_ref |-> TRUE, ref |-> body[3]]
    ELSE IF body = <<"[", "]">>
    THEN [kind |-> "list", has_ref |-> FALSE, ref |-> ""]
    ELSE [kind |-> "invalid", has_ref |-> FALSE, ref |-> ""]

\* hmac.new(key, msg, sha256).hexdigest(): a symbolic digest, one for each
\* (key, message) pair (HMAC-SHA256 taken as collision free).
HmacHexdigest(key, msg) == <<"hmac", key>> \o msg

\* The header value GitHub computes for a body under a secret.
Sign(key, msg) == <<"sha256=">> \o HmacHexdigest(key, msg)

\* Characters outside ASCII, which Starlette delivers from latin-1 bytes.
NonAscii == {"\\xe9"}

IsAscii(s) == \A i \in 1..Len(s) : s[i] \notin NonAscii

\* Header values a caller can send with a body: a signature over that body or
\* over a push to the target branch, under any secret; a digest without its
\* prefix; a latin-1 byte string; or no header at all.
SignatureHeaders(body) ==
    { [present |-> FALSE, value |-> <<>>] }
    \cup { [present |-> TRUE, value |-> Sign(k, m)] :
             k \in Secrets, m \in {body, <<"{", "ref", "refs/heads/main", "}">>} }
    \cup { [present |-> TRUE, value |-> HmacHexdigest("s3cret", body)] }
    \cup { [present |-> TRUE, value |-> <<"sha256=", "\\xe9">>] }

\* What a command has printed when it exits with the given status.
Outputs(exit) == IF exit = "0" THEN { <<"hi", "\n">> } ELSE { <<"boom", "\n">> }

----------------------------------------------------------------------------
(* Responses.  keys names the members of the JSON body.                    *)

NoResponse ==
    [code |-> 0, keys |-> {}, message |-> <<>>, status |-> "",
     details |-> <<>>, detail |-> <<>>]

\* raise HTTPException(status_code, detail)
HTTPException(code, detail) ==
    [NoResponse EXCEPT !.code = code, !.keys = {"detail"}, !.detail = detail]

\* What the server answers when an exception leaves the handler.
InternalServerError ==
    [NoResponse EXCEPT !.code = 500, !.detail = <<"Internal Server Error">>]

\* return {"message": "Push was not to the target branch, ignoring."}
IgnoredResult ==
    [NoResponse EXCEPT !.code = 200, !.keys = {"message"},
       !.message = <<"Push was not to the target branch, ignoring.">>]

\* return {"message": ..., "status": status, "details": details}
ProcessedResult(name, status, details) ==
    [NoResponse EXCEPT !.code = 200, !.keys = {"message", "status", "details"},
       !.message = <<"Webhook received and processed for ">> \o name,
       !.status = status, !.details = details]

\* return {"status": "healthy", "timestamp": ..., "config_file": CONFIG_FILE}
HealthyResult ==
    [NoResponse EXCEPT !.code = 200,
       !.keys = {"status", "timestamp", "config_file"}, !.status = "healthy"]

----------------------------------------------------------------------------
(* Texts the code builds.                                                  *)

\* ' '.join(command)
JoinCommand(command) ==
    Join([i \in 1..Len(command) |-> <<command[i]>>], " ")

\* f"Command {' '.join(command)}: {result}"
CommandLabel(command, result) ==
    <<"Command ">> \o JoinCommand(command) \o <<": ">> \o result

\* repr of a list of strings
ReprList(command) ==
    <<"[">> \o Join([i \in 1..Len(command) |-> <<"'", command[i], "'">>], ", ")
            \o <<"]">>

\* str(CalledProcessError): the command and its exit status, not its output
CalledProcessErrorText(command, code) ==
    <<"Command '">> \o ReprList(command)
        \o <<"' returned non-zero exit status ", code, ".">>

\* str(FileNotFoundError) of a command that cannot be spawned
SpawnErrorText(command) ==
    <<"[Errno 2] No such file or directory: ", "'", command[1], "'">>

\* f"Webhook for {project_name} - Status: {status}\nDetails: {details}"
Message(project_name, status, details) ==
    <<"Webhook for ">> \o project_name \o <<" - ", "Status: ", status, "\n",
      "Details: ">> \o details

\* f"Push was not to the target branch {target_branch}."
IgnoredDetails(target_branch) ==
    <<"Push was not to the target branch ", target_branch, ".">>

----------------------------------------------------------------------------
(* State.                                                                  *)

VARIABLES
    PROJECTS,      \* the registry read from CONFIG_FILE at import
    SLACK_TOKEN,   \* TRUE when the SLACK_TOKEN setting is non-empty
    EMAIL_CONFIG,  \* TRUE when server, user, password and from_email are set
    loop,          \* the request whose coroutine holds the event loop
    rq,            \* per request: the locals of its handler and where it is
    started,       \* per request: indexes of the commands handed to check_output
    captured,      \* per request: what each command that ended printed
    notified,      \* per request: the calls of send_notifications
    attempts,      \* per request: the calls of send_email, send_slack, send_mattermost
    response,      \* per request: the HTTP response, once there is one
    health         \* the response to the latest GET /health

vars == <<PROJECTS, SLACK_TOKEN, EMAIL_CONFIG, loop, rq, started, captured,
          notified, attempts, response, health>>

InitLocal ==
    [pc |-> "idle", project_name |-> "", has_signature |-> FALSE,
     signature |-> <<>>, body |-> <<>>, authenticated |-> FALSE, idx |-> 0,
     command_outputs |-> <<>>, status |-> "", details |-> <<>>,
     callsite |-> "none"]

Init ==
    /\ PROJECTS = Registry
    /\ SLACK_TOKEN \in BOOLEAN
    /\ EMAIL_CONFIG \in BOOLEAN
    /\ loop = NoTask
    /\ rq = [r \in Requests |-> InitLocal]
    /\ started = [r \in Requests |-> <<>>]
    /\ captured = [r \in Requests |-> <<>>]
    /\ notified = [r \in Requests |-> <<>>]
    /\ attempts = [r \in Requests |-> <<>>]
    /\ response = [r \in Requests |-> NoResponse]
    /\ health = NoResponse

\* project_config of a request that passed the lookup
Config(r) == PROJECTS[rq[r].project_name]

\* As if every request ran on a thread of its own.
RunnableInThread(r) == loop \in {NoTask} \cup Requests

\* A coroutine runs when the loop is free or already its own.
Runnable(r) == loop \in {NoTask, r}

\* ProjectConfig(**project_config): the required members and the commands
\* validator
ProjectConfigValid(config) == config # EmptyConfig /\ config.commands # <<>>

\* project_config = PROJECTS.get(project_name); not project_config
NotProjectConfig(projects, project_name) ==
    \/ project_name \notin DOMAIN projects
    \/ projects[project_name] = EmptyConfig

----------------------------------------------------------------------------
(* Arrival, lookup and signature.                                          *)

\* A delivery for POST /webhook/{project_name} arrives.
Receive(r) ==
    /\ rq[r].pc = "idle"
    /\ \E p \in ProjectNames :
         rq' = [rq EXCEPT ![r].pc = "received", ![r].project_name = p]
    /\ UNCHANGED <<PROJECTS, SLACK_TOKEN, EMAIL_CONFIG, health,
                   loop, started, captured,
                   notified, attempts, response>>

\* The request ends with an HTTP response.
Finish(r, q, resp) ==
    /\ rq' = [rq EXCEPT ![r] = [q EXCEPT !.pc = "done"]]
    /\ response' = [response EXCEPT ![r] = resp]
    /\ loop' = NoTask

webhook_handler(r) ==
    /\ rq[r].pc = "received"
    /\ Runnable(r)
    /\ IF NotProjectConfig(PROJECTS, rq[r].project_name)
       THEN Finish(r, rq[r], HTTPException(404, <<"Project not found">>))
       ELSE IF ~ProjectConfigValid(Config(r))
       THEN Finish(r, rq[r], HTTPException(500, <<"Invalid project configuration: ",
                                           "At least one command must be specified">>))
       ELSE /\ rq' = [rq EXCEPT ![r].pc = "validate"]
            /\ loop' = r
            /\ UNCHANGED response
    /\ UNCHANGED <<PROJECTS, SLACK_TOKEN, EMAIL_CONFIG, health,
                   started, captured,
                   notified, attempts>>

\* hmac.compare_digest on two str: TypeError unless both are ASCII
CompareDigest(a, b) ==
    IF ~IsAscii(a) \/ ~IsAscii(b) THEN "TypeError"
    ELSE IF a = b THEN "equal" ELSE "differ"

\* As if the digest were computed without the project's secret as key.
ValidateSignatureAnyKey(header, body, secret_token) ==
    IF ~header.present THEN "missing"
    ELSE IF ~IsAscii(header.value) THEN "TypeError"
    ELSE IF \E k \in Secrets : header.value = Sign(k, body) THEN "ok"
    ELSE "invalid"

\* validate_signature: "ok", or the exception it raises
ValidateSignature(header, body, secret_token) ==
    IF ~header.present THEN "missing"
    ELSE LET cmp == CompareDigest(Sign(secret_token, body), header.value) IN
         IF cmp = "TypeError" THEN "TypeError"
         ELSE IF cmp = "equal" THEN "ok" ELSE "invalid"

\* As if the handler raised the 500 without notifying first.
CaughtNoNotify(q, text) ==
    [q EXCEPT !.pc = "respond", !.status = "Failed", !.details = text,
              !.callsite = "failed"]

\* except Exception as e: status = "Failed"; details = str(e); then line 232
Caught(q, text) ==
    [q EXCEPT !.pc = "notify", !.status = "Failed", !.details = text,
              !.callsite = "failed"]

\* await validate_signature(request, project_config["secret_token"])
validate_signature(r) ==
    /\ rq[r].pc = "validate"
    /\ Runnable(r)
    /\ \E body \in Bodies : \E header \in SignatureHeaders(body) :
         LET q == [rq[r] EXCEPT !.body = body,
                                !.has_signature = header.present,
                                !.signature = header.value]
             v == ValidateSignature(header, body, Config(r).secret_token)
         IN  IF v = "missing"
             THEN Finish(r, q, HTTPException(401, <<"Signature header missing">>))
             ELSE IF v = "invalid"
             THEN Finish(r, q, HTTPException(401, <<"Invalid signature">>))
             ELSE IF v = "TypeError"
             THEN /\ rq' = [rq EXCEPT ![r] = Caught(q,
                       <<"comparing strings with non-ASCII characters is not supported">>)]
                  /\ loop' = r
                  /\ UNCHANGED response
             ELSE /\ rq' = [rq EXCEPT ![r] =
                              [q EXCEPT !.pc = "json", !.authenticated = TRUE]]
                  /\ loop' = r
                  /\ UNCHANGED response
    /\ UNCHANGED <<PROJECTS, SLACK_TOKEN, EMAIL_CONFIG, health,
                   started, captured,
                   notified, attempts>>

----------------------------------------------------------------------------
(* Payload, branch filter and commands.                                    *)

\* payload = await request.json(); if payload.get('ref') != target_branch
parse_payload(r) ==
    /\ rq[r].pc = "json"
    /\ Runnable(r)
    /\ LET payload == JsonLoads(rq[r].body)
           q == rq[r]
       IN  rq' = [rq EXCEPT ![r] =
             IF payload.kind = "invalid"
             THEN Caught(q, <<"Expecting value: line 1 column 1 (char 0)">>)
             ELSE IF payload.kind = "list"
             THEN Caught(q, <<"'list' object has no attribute 'get'">>)
             ELSE IF ~payload.has_ref \/ payload.ref # Config(r).target_branch
             THEN [q EXCEPT !.pc = "notify", !.status = "Ignored",
                            !.details = IgnoredDetails(Config(r).target_branch),
                            !.callsite = "ignored"]
             ELSE [q EXCEPT !.pc = "commands", !.idx = 1]]
    /\ loop' = r
    /\ UNCHANGED <<PROJECTS, SLACK_TOKEN, EMAIL_CONFIG, health,
                   started, captured,
                   notified, attempts, response>>

\* As if the error of a command were swallowed and the loop went on.
OnCommandErrorContinue(q, text) ==
    [q EXCEPT !.pc = "commands", !.idx = q.idx + 1]

\* What the for loop does once check_output has raised for command idx.
OnCommandError(q, text) == Caught(q, text)

\* What the for loop does once check_output has returned result for command idx.
OnCommandSuccess(q, commands, result) ==
    LET outs == Append(q.command_outputs, CommandLabel(commands[q.idx], result))
    IN  IF q.idx < Len(commands)
        THEN [q EXCEPT !.command_outputs = outs, !.idx = q.idx + 1, !.pc = "commands"]
        ELSE [q EXCEPT !.command_outputs = outs, !.pc = "notify",
                       !.status = "Success", !.details = Join(outs, "\n"),
                       !.callsite = "success"]

\* subprocess.check_output spawns commands[idx] in the project's directory,
\* or fails to.
StartCommand(r) ==
    /\ rq[r].pc = "commands"
    /\ rq[r].idx \in 1..Len(Config(r).commands)
    /\ Runnable(r)
    /\ started' = [started EXCEPT ![r] = Append(@, rq[r].idx)]
    /\ \E spawned \in BOOLEAN :
         IF spawned
         THEN /\ rq' = [rq EXCEPT ![r].pc = "running"]
              /\ UNCHANGED captured
         ELSE /\ rq' = [rq EXCEPT ![r] =
                   OnCommandError(@, SpawnErrorText(Config(r).commands[rq[r].idx]))]
              /\ captured' = [captured EXCEPT ![r] =
                   Append(@, [idx |-> rq[r].idx, exit |-> "spawn_error",
                              output |-> <<>>])]
    /\ loop' = r
    /\ UNCHANGED <<PROJECTS, SLACK_TOKEN, EMAIL_CONFIG, health,
                   notified, attempts,
                   response>>

\* The child exits: check_output returns its output, or raises
\* CalledProcessError on a non-zero exit status.
CommandExit(r) ==
    /\ rq[r].pc = "running"
    /\ Runnable(r)
    /\ \E exit \in {"0", "1"} : \E out \in Outputs(exit) :
         /\ captured' = [captured EXCEPT ![r] =
              Append(@, [idx |-> rq[r].idx, exit |-> exit, output |-> out])]
         /\ rq' = [rq EXCEPT ![r] =
              IF exit = "0"
              THEN OnCommandSuccess(@, Config(r).commands, out)
              ELSE OnCommandError(@,
                     CalledProcessErrorText(Config(r).commands[rq[r].idx], exit))]
    /\ loop' = r
    /\ UNCHANGED <<PROJECTS, SLACK_TOKEN, EMAIL_CONFIG, health,
                   started, notified,
                   attempts, response>>

----------------------------------------------------------------------------
(* Notifications.                                                          *)

\* project_config.get("notifications", {}): the default only when the key is
\* left out; a null stays None.
Notifications(config) ==
    IF config.notifications.kind = "omitted"
    THEN Notif("dict", "", "", "")
    ELSE config.notifications

\* send_slack and send_mattermost take the message apart again.
ParseMessage(message) ==
    LET lines == Split(message, "\n")
        project_info == Split(lines[1], " - ")
    IN  IF Len(project_info) < 2
        THEN [ok |-> FALSE, project_name |-> <<>>, status |-> <<>>, details |-> <<>>]
        ELSE [ok |-> TRUE,
              project_name |-> Replace(project_info[1], "Webhook for "),
              status |-> Replace(project_info[2], "Status: "),
              details |-> Join(From(lines, 2), "\n")]

\* color of the Slack attachment
SlackColor(status) ==
    IF status = <<"Success">> THEN "#36a64f"
    ELSE IF status = <<"Failed">> THEN "#ff0000" ELSE "#808080"

\* icon of the Mattermost message
MattermostIcon(status) ==
    IF status = <<"Success">> THEN ":white_check_mark:"
    ELSE IF status = <<"Failed">> THEN ":x:" ELSE ":grey_question:"

\* The three backquotes that open and close a code block.
Fence == "<fence>"

\* the Details field of the Slack attachment
SlackDetails(details) ==
    IF details # <<>> THEN <<Fence>> \o details \o <<Fence>>
    ELSE <<"No details available">>

\* the fenced block of the Mattermost message
MattermostDetails(details) == <<Fence, "\n">> \o details \o <<"\n", Fence>>

\* One call of a channel function, with the payload it built if it built one.
Attempt(call, channel, outcome, project_name, status, mark, details) ==
    [call |-> call, channel |-> channel, outcome |-> outcome,
     project_name |-> project_name, status |-> status, mark |-> mark,
     details |-> details]

NoPayload(call, channel, outcome) ==
    Attempt(call, channel, outcome, <<>>, <<>>, "", <<>>)

\* The message of the running call of send_notifications.
CurrentMessage(r) == Message(Config(r).name, rq[r].status, rq[r].details)

\* An exception leaves send_notifications: the call at line 205 is inside the
\* try, the calls at lines 232 and 235 are not.
RaiseInNotify(r, text) ==
    IF rq[r].callsite = "ignored"
    THEN /\ rq' = [rq EXCEPT ![r] = Caught(@, text)]
         /\ loop' = r
         /\ UNCHANGED response
    ELSE Finish(r, rq[r], InternalServerError)

\* send_notifications is entered: the message is built and
\* notifications.get("email") evaluated.
send_notifications(r) ==
    /\ rq[r].pc = "notify"
    /\ Runnable(r)
    /\ notified' = [notified EXCEPT ![r] =
         Append(@, [status |-> rq[r].status, details |-> rq[r].details])]
    /\ IF Notifications(Config(r)).kind = "null"
       THEN RaiseInNotify(r, <<"'NoneType' object has no attribute 'get'">>)
       ELSE /\ rq' = [rq EXCEPT ![r].pc = "email"]
            /\ loop' = r
            /\ UNCHANGED response
    /\ UNCHANGED <<PROJECTS, SLACK_TOKEN, EMAIL_CONFIG, health,
                   started, captured,
                   attempts>>

\* if notifications.get("email"): await send_email(...)
send_email(r) ==
    /\ rq[r].pc = "email"
    /\ Runnable(r)
    /\ rq' = [rq EXCEPT ![r].pc = "slack"]
    /\ loop' = r
    /\ IF Notifications(Config(r)).email = ""
       THEN UNCHANGED attempts
       ELSE IF ~EMAIL_CONFIG
       THEN attempts' = [attempts EXCEPT ![r] =
              Append(@, NoPayload(Len(notified[r]), "email", "skipped"))]
       ELSE \E outcome \in {"sent", "error"} :
              attempts' = [attempts EXCEPT ![r] =
                Append(@, Attempt(Len(notified[r]), "email", outcome,
                                  Config(r).name, <<rq[r].status>>, "",
                                  CurrentMessage(r)))]
    /\ UNCHANGED <<PROJECTS, SLACK_TOKEN, EMAIL_CONFIG, health,
                   started, captured,
                   notified, response>>

\* if notifications.get("slack_webhook"): await send_slack(...)
send_slack(r) ==
    /\ rq[r].pc = "slack"
    /\ Runnable(r)
    /\ LET m == ParseMessage(CurrentMessage(r))
           call == Len(notified[r])
       IN  IF Notifications(Config(r)).slack_webhook = ""
           THEN /\ rq' = [rq EXCEPT ![r].pc = "mattermost"]
                /\ loop' = r
                /\ UNCHANGED <<attempts, response>>
           ELSE IF ~SLACK_TOKEN
           THEN /\ rq' = [rq EXCEPT ![r].pc = "mattermost"]
                /\ loop' = r
                /\ attempts' = [attempts EXCEPT ![r] =
                     Append(@, NoPayload(call, "slack", "skipped"))]
                /\ UNCHANGED response
           ELSE IF ~m.ok
           THEN /\ attempts' = [attempts EXCEPT ![r] =
                     Append(@, NoPayload(call, "slack", "raised"))]
                /\ RaiseInNotify(r, <<"list index out of range">>)
           ELSE /\ \E outcome \in {"sent", "error"} :
                     attempts' = [attempts EXCEPT ![r] =
                       Append(@, Attempt(call, "slack", outcome, m.project_name,
                                         m.status, SlackColor(m.status),
                                         SlackDetails(m.details)))]
                /\ rq' = [rq EXCEPT ![r].pc = "mattermost"]
                /\ loop' = NoTask
                /\ UNCHANGED response
    /\ UNCHANGED <<PROJECTS, SLACK_TOKEN, EMAIL_CONFIG, health,
                   started, captured,
                   notified>>

\* if notifications.get("mattermost_webhook"): await send_mattermost(...)
send_mattermost(r) ==
    /\ rq[r].pc = "mattermost"
    /\ Runnable(r)
    /\ LET m == ParseMessage(CurrentMessage(r))
           call == Len(notified[r])
       IN  IF Notifications(Config(r)).mattermost_webhook = ""
           THEN /\ rq' = [rq EXCEPT ![r].pc = "respond"]
                /\ loop' = r
                /\ UNCHANGED <<attempts, response>>
           ELSE IF ~m.ok
           THEN /\ attempts' = [attempts EXCEPT ![r] =
                     Append(@, NoPayload(call, "mattermost", "raised"))]
                /\ RaiseInNotify(r, <<"list index out of range">>)
           ELSE /\ \E outcome \in {"sent", "error"} :
                     attempts' = [attempts EXCEPT ![r] =
                       Append(@, Attempt(call, "mattermost", outcome,
                                         m.project_name, m.status,
                                         MattermostIcon(m.status),
                                         MattermostDetails(m.details)))]
                /\ rq' = [rq EXCEPT ![r].pc = "respond"]
                /\ loop' = NoTask
                /\ UNCHANGED response
    /\ UNCHANGED <<PROJECTS, SLACK_TOKEN, EMAIL_CONFIG, health,
                   started, captured,
                   notified>>

\* send_notifications has returned: the return at line 211 or 236, or the
\* raise at line 233.
Respond(r) ==
    /\ rq[r].pc = "respond"
    /\ Runnable(r)
    /\ Finish(r, rq[r],
         IF rq[r].callsite = "ignored" THEN IgnoredResult
         ELSE IF rq[r].callsite = "success"
         THEN ProcessedResult(Config(r).name, rq[r].status, rq[r].details)
         ELSE HTTPException(500, rq[r].details))
    /\ UNCHANGED <<PROJECTS, SLACK_TOKEN, EMAIL_CONFIG, health,
                   started, captured,
                   notified, attempts>>

----------------------------------------------------------------------------

\* Any step of one request.
\* A version of HealthRegistry that keeps what json.load returned.
HealthRegistryReload(projects, loaded) == loaded

\* health_check discards what json.load returned: PROJECTS stays as it is.
HealthRegistry(projects, loaded) == projects

\* GET /health: a coroutine without await, which runs when the loop is free.
health_check ==
    /\ loop = NoTask
    /\ \E file \in ConfigFileStates :
         IF file.error = <<>>
         THEN /\ PROJECTS' = HealthRegistry(PROJECTS, file.content)
              /\ health' = HealthyResult
         ELSE /\ PROJECTS' = PROJECTS
              /\ health' = HTTPException(503,
                              <<"Service unhealthy: ">> \o file.error)
    /\ UNCHANGED <<SLACK_TOKEN, EMAIL_CONFIG, loop, rq, started, captured,
                   notified, attempts, response>>

Step(r) ==
    \/ Receive(r)
    \/ webhook_handler(r)
    \/ validate_signature(r)
    \/ parse_payload(r)
    \/ StartCommand(r)
    \/ CommandExit(r)
    \/ send_notifications(r)
    \/ send_email(r)
    \/ send_slack(r)
    \/ send_mattermost(r)
    \/ Respond(r)

Next == (\E r \in Requests : Step(r)) \/ health_check

\* Deliveries in flight together, as many as NumRequests.
Spec == Init /\ [][Next]_vars

\* One delivery, from arrival to response.
NextSingle == Step(1)

SpecSingle == Init /\ [][NextSingle]_vars

\* One delivery, with health requests before, during and after it.
NextHealth == NextSingle \/ health_check

SpecHealth == Init /\ [][NextHealth]_vars

----------------------------------------------------------------------------
(* Vocabulary of the properties.                                           *)

Done(r) == rq[r].pc = "done"

\* The request got as far as validate_signature, which read body and header.
Validated(r) == rq[r].body # <<>>

\* The signature GitHub would have sent for this request.
ExpectedSignature(r) == Sign(Config(r).secret_token, rq[r].body)

\* Authenticated, with a JSON object whose ref is not the target branch.
RefMismatch(r) ==
    /\ rq[r].authenticated
    /\ JsonLoads(rq[r].body).kind = "object"
    /\ \/ ~JsonLoads(rq[r].body).has_ref
       \/ JsonLoads(rq[r].body).ref # Config(r).target_branch

\* Channels with a non-empty destination in the project's notifications.
ConfiguredChannels(r) ==
    LET n == Notifications(Config(r)) IN
    IF n.kind = "null" THEN {}
    ELSE {c \in {"email", "slack", "mattermost"} :
            \/ c = "email" /\ n.email # ""
            \/ c = "slack" /\ n.slack_webhook # ""
            \/ c = "mattermost" /\ n.mattermost_webhook # ""}

\* Call k of send_notifications has returned or raised.
CallOver(r, k) ==
    \/ k < Len(notified[r])
    \/ k = Len(notified[r]) /\ rq[r].pc \in {"notify", "respond", "done"}

\* Channel c was attempted in call k of send_notifications.
Attempted(r, k, c) ==
    \E i \in 1..Len(attempts[r]) :
        attempts[r][i].call = k /\ attempts[r][i].channel = c

\* Command j of the request ended in failure.
FailedAt(r, j) ==
    j \in 1..Len(captured[r]) /\ captured[r][j].exit # "0"

\* Every command of the project ran and exited with status 0.
AllSucceeded(r) ==
    /\ rq[r].authenticated
    /\ Len(captured[r]) = Len(Config(r).commands)
    /\ \A j \in 1..Len(captured[r]) : captured[r][j].exit = "0"

\* The labelled outputs of the commands that ran, joined as details.
LabelledOutputs(r) ==
    Join([j \in 1..Len(captured[r]) |->
            CommandLabel(Config(r).commands[j], captured[r][j].output)], "\n")

----------------------------------------------------------------------------
(* Branch filter.                                                          *)

\* C1: an authenticated request whose ref is not the target branch starts no
\* command, and send_notifications is called with status "Ignored" in a call
\* that attempts every configured channel.
C1_IgnoredNotifiesEveryChannel ==
    \A r \in Requests :
        (Done(r) /\ RefMismatch(r)) =>
            /\ started[r] = <<>>
            /\ \E k \in 1..Len(notified[r]) :
                 /\ notified[r][k].status = "Ignored"
                 /\ \A c \in ConfiguredChannels(r) : Attempted(r, k, c)

\* C2: an authenticated request whose ref is not the target branch is answered
\* 200 with a body {message, status, details} whose status is "Ignored".
C2_IgnoredResponseStructure ==
    \A r \in Requests :
        (Done(r) /\ RefMismatch(r)) =>
            /\ response[r].code = 200
            /\ response[r].keys = {"message", "status", "details"}
            /\ response[r].status = "Ignored"

----------------------------------------------------------------------------
(* Command execution.                                                      *)

\* C3: commands are started strictly in list order; once command i has failed
\* (non-zero exit or spawn error) no later command is ever started, the status
\* is "Failed" and the request ends with HTTP 500.
C3_StopAtFirstFailure ==
    \A r \in Requests :
        /\ started[r] = [i \in 1..Len(started[r]) |-> i]
        /\ \A j \in 1..Len(captured[r]) :
             /\ captured[r][j].idx = j
             /\ FailedAt(r, j) =>
                  /\ Len(started[r]) = j
                  /\ Len(captured[r]) = j
                  /\ rq[r].status = "Failed"
                  /\ Done(r) => response[r].code = 500

\* A request has ended whose first command of two failed.
C3_Witness ==
    \E r \in Requests :
        /\ Done(r)
        /\ FailedAt(r, 1)
        /\ Len(Config(r).commands) = 2
        /\ response[r].code = 500

\* C4: when command i exits non-zero, the details of the 500 response and of
\* the "Failed" notification contain what command i printed.
C4_FailureDetailsCarryOutput ==
    \A r \in Requests :
        \A j \in 1..Len(captured[r]) :
            (Done(r) /\ captured[r][j].exit = "1") =>
                /\ Contains(response[r].detail, captured[r][j].output)
                /\ \E k \in 1..Len(notified[r]) :
                     /\ notified[r][k].status = "Failed"
                     /\ Contains(notified[r][k].details, captured[r][j].output)

\* C5: when all n commands succeed, each was started once in list order, the
\* response is 200 with status "Success", and details is the labelled output
\* of c1..cn in list order.
C5_SuccessResponse ==
    \A r \in Requests :
        (Done(r) /\ AllSucceeded(r)) =>
            /\ started[r] = [i \in 1..Len(Config(r).commands) |-> i]
            /\ response[r].code = 200
            /\ response[r].status = "Success"
            /\ response[r].details = LabelledOutputs(r)

----------------------------------------------------------------------------
(* Signature.                                                              *)

\* C6: a request to a valid project whose signature header is absent or is
\* not the expected signature ends with 401, starts no command and never
\* calls send_notifications.
C6_BadSignatureIs401 ==
    \A r \in Requests :
        (/\ Done(r)
         /\ Validated(r)
         /\ ~rq[r].has_signature \/ rq[r].signature # ExpectedSignature(r)) =>
            /\ response[r].code = 401
            /\ started[r] = <<>>
            /\ notified[r] = <<>>

\* C9: validate_signature accepts exactly the header that equals "sha256=" and
\* the hex HMAC-SHA256 of the body under the project's secret; a signature over
\* another body or under another secret is rejected with 401.
C9_SignatureAcceptedIffCorrect ==
    \A r \in Requests :
        Validated(r) =>
            /\ rq[r].authenticated <=>
                 (rq[r].has_signature /\ rq[r].signature = ExpectedSignature(r))
            /\ \A k \in Secrets : \A m \in Bodies :
                 (/\ rq[r].has_signature
                  /\ rq[r].signature = Sign(k, m)
                  /\ <<k, m>> # <<Config(r).secret_token, rq[r].body>>) =>
                     /\ ~rq[r].authenticated
                     /\ response[r].code = 401

\* A correctly signed request has been accepted.
C9_Witness ==
    \E r \in Requests :
        /\ rq[r].authenticated
        /\ rq[r].has_signature
        /\ rq[r].signature = ExpectedSignature(r)
        /\ rq[r].pc = "json"

----------------------------------------------------------------------------
(* Notification channels.                                                  *)

\* The response process_webhook gives when every channel call returns: a
\* function of the request, the configuration and the command outcomes.
ResponseFromRequest(r) ==
    LET p == rq[r].project_name
        header == [present |-> rq[r].has_signature, value |-> rq[r].signature]
        payload == JsonLoads(rq[r].body)
    IN  IF NotProjectConfig(PROJECTS, p)
        THEN HTTPException(404, <<"Project not found">>)
        ELSE IF ~ProjectConfigValid(PROJECTS[p])
        THEN HTTPException(500, <<"Invalid project configuration: ",
                                  "At least one command must be specified">>)
        ELSE LET v == ValidateSignature(header, rq[r].body, PROJECTS[p].secret_token)
             IN  IF v = "missing"
                 THEN HTTPException(401, <<"Signature header missing">>)
                 ELSE IF v = "invalid"
                 THEN HTTPException(401, <<"Invalid signature">>)
                 ELSE IF Notifications(PROJECTS[p]).kind = "null"
                 THEN InternalServerError
                 ELSE IF v = "TypeError"
                 THEN HTTPException(500,
                        <<"comparing strings with non-ASCII characters is not supported">>)
                 ELSE IF payload.kind = "invalid"
                 THEN HTTPException(500, <<"Expecting value: line 1 column 1 (char 0)">>)
                 ELSE IF payload.kind = "list"
                 THEN HTTPException(500, <<"'list' object has no attribute 'get'">>)
                 ELSE IF RefMismatch(r)
                 THEN IgnoredResult
                 ELSE IF AllSucceeded(r)
                 THEN ProcessedResult(PROJECTS[p].name, "Success", LabelledOutputs(r))
                 ELSE LET j == Len(captured[r])
                          command == PROJECTS[p].commands[j]
                      IN  HTTPException(500,
                            IF captured[r][j].exit = "spawn_error"
                            THEN SpawnErrorText(command)
                            ELSE CalledProcessErrorText(command, captured[r][j].exit))

\* C7: the HTTP status and body of a webhook call are those process_webhook
\* gives when every channel succeeds, whatever the channels do.
C7_ResponseIndependentOfChannels ==
    \A r \in Requests : Done(r) => response[r] = ResponseFromRequest(r)

\* C8: every call of send_notifications that is over has attempted each
\* channel with a non-empty destination.
C8_EveryConfiguredChannelAttempted ==
    \A r \in Requests :
        \A k \in 1..Len(notified[r]) :
            CallOver(r, k) =>
                \A c \in ConfiguredChannels(r) : Attempted(r, k, c)

----------------------------------------------------------------------------
(* Deliveries in flight together.                                          *)

\* The request is inside the for loop over its commands.
Executing(r) == rq[r].pc \in {"commands", "running"}

\* The request has started some but not all of its commands.
MidSequence(r) ==
    /\ Executing(r)
    /\ 0 < Len(started[r])
    /\ Len(started[r]) < Len(Config(r).commands)

\* The request has arrived and has no response yet.
InFlight(r) == rq[r].pc \notin {"idle", "done"}

\* Every delivery so far is a correctly signed push to the target branch of
\* the demo project, and no channel post has failed.
Deploying ==
    \A r \in Requests :
        /\ rq[r].project_name \in {"", "demo"}
        /\ Validated(r) =>
             /\ rq[r].authenticated
             /\ rq[r].body = <<"{", "ref", "refs/heads/main", "}">>
        /\ \A i \in 1..Len(attempts[r]) : attempts[r][i].outcome # "error"

NextDeploy ==
    \E r \in Requests :
        \/ Receive(r) /\ Deploying'
        \/ webhook_handler(r) /\ Deploying'
        \/ validate_signature(r) /\ Deploying'
        \/ parse_payload(r) /\ Deploying'
        \/ StartCommand(r) /\ Deploying'
        \/ CommandExit(r) /\ Deploying'
        \/ send_notifications(r) /\ Deploying'
        \/ send_email(r) /\ Deploying'
        \/ send_slack(r) /\ Deploying'
        \/ send_mattermost(r) /\ Deploying'
        \/ Respond(r) /\ Deploying'

\* Deployments of one project in flight together, as many as NumRequests.
SpecDeploy == Init /\ [][NextDeploy]_vars

\* C10 as stated: while one delivery has started some but not all of its
\* commands, another delivery in flight for the same project is free to go on
\* to its own commands.
C10_InFlightDeliveryCanProceed ==
    \A a, b \in Requests :
        (/\ a # b
         /\ MidSequence(a)
         /\ InFlight(b)
         /\ rq[b].project_name = rq[a].project_name) => ENABLED Step(b)

\* C10 as amended: while a request is inside its command loop it holds the
\* event loop, and no other request starts or runs a command.
C10_CommandSequencesNeverOverlap ==
    \A a \in Requests :
        Executing(a) =>
            /\ loop = a
            /\ \A b \in Requests \ {a} : ~Executing(b)

\* Two deliveries for one project are in flight and one of them has started
\* some but not all of its commands.
C10_Witness ==
    \E a, b \in Requests :
        /\ a # b
        /\ MidSequence(a)
        /\ InFlight(b)
        /\ rq[b].project_name = rq[a].project_name

----------------------------------------------------------------------------
(* Lookup.                                                                 *)

\* C11: a project identifier that is not in the registry gives 404, a project
\* whose configuration fails ProjectConfig validation gives 500; either way the
\* signature is never read, no command starts and send_notifications is never
\* called.
C11_LookupOutcomes ==
    \A r \in Requests :
        Done(r) =>
            /\ rq[r].project_name \notin DOMAIN PROJECTS =>
                 response[r].code = 404
            /\ (/\ rq[r].project_name \in DOMAIN PROJECTS
                /\ ~ProjectConfigValid(Config(r))) =>
                 response[r].code = 500
            /\ (\/ rq[r].project_name \notin DOMAIN PROJECTS
                \/ ~ProjectConfigValid(Config(r))) =>
                 /\ ~Validated(r)
                 /\ started[r] = <<>>
                 /\ notified[r] = <<>>

----------------------------------------------------------------------------
(* Order of the pipeline.                                                  *)

\* The push names the target branch of the project.
RefMatches(r) ==
    /\ JsonLoads(rq[r].body).kind = "object"
    /\ JsonLoads(rq[r].body).has_ref
    /\ JsonLoads(rq[r].body).ref = Config(r).target_branch

\* C12: within a request the signature is read only after the lookup, a
\* command starts only after the signature was accepted and the ref matched
\* and before any notification, send_notifications is called only before the
\* response, and a response for Success, Failed or Ignored is a 200 or 500 that
\* comes after send_notifications was called with that status.
C12_PipelineOrder ==
    [][\A r \in Requests :
         /\ (Validated(r)' /\ ~Validated(r)) =>
              /\ rq[r].pc = "validate"
              /\ ~NotProjectConfig(PROJECTS, rq[r].project_name)
         /\ started'[r] # started[r] =>
              /\ rq[r].authenticated
              /\ RefMatches(r)
              /\ notified[r] = <<>>
              /\ response[r] = NoResponse
         /\ notified'[r] # notified[r] =>
              /\ Validated(r)
              /\ response[r] = NoResponse
         /\ (/\ response'[r] # response[r]
             /\ rq'[r].status \in {"Success", "Failed", "Ignored"}) =>
              /\ response[r] = NoResponse
              /\ response'[r].code \in {200, 500}
              /\ notified'[r] # <<>>
              /\ notified'[r][Len(notified'[r])].status = rq'[r].status
      ]_vars

\* A push to the target branch has been answered 200 after its commands ran
\* and send_notifications was called.
C12_Witness ==
    \E r \in Requests :
        /\ Done(r)
        /\ rq[r].status = "Success"
        /\ started[r] # <<>>
        /\ notified[r] # <<>>
        /\ response[r].code = 200

----------------------------------------------------------------------------
(* Unexpected errors.                                                      *)

\* The text of the unexpected error an authenticated request ran into: a body
\* that is no JSON, a JSON payload that is no object, a command that cannot be
\* spawned.  <<>> when there was none.
UnexpectedErrorText(r) ==
    IF ~rq[r].authenticated THEN <<>>
    ELSE IF JsonLoads(rq[r].body).kind = "invalid"
    THEN <<"Expecting value: line 1 column 1 (char 0)">>
    ELSE IF JsonLoads(rq[r].body).kind = "list"
    THEN <<"'list' object has no attribute 'get'">>
    ELSE IF \E j \in 1..Len(captured[r]) : captured[r][j].exit = "spawn_error"
    THEN SpawnErrorText(Config(r).commands[Len(captured[r])])
    ELSE <<>>

\* C13: an authenticated request that runs into an unexpected error ends as
\* Failed: send_notifications is called with status "Failed" and the failure
\* text, and the response is a 500 carrying the same text.
C13_UnexpectedErrorIsFailed ==
    \A r \in Requests :
        (Done(r) /\ UnexpectedErrorText(r) # <<>>) =>
            /\ \E k \in 1..Len(notified[r]) :
                 /\ notified[r][k].status = "Failed"
                 /\ notified[r][k].details = UnexpectedErrorText(r)
            /\ response[r] = HTTPException(500, UnexpectedErrorText(r))

----------------------------------------------------------------------------
(* Payloads of the chat channels.                                          *)

\* Attempt i of the request built a Slack or Mattermost payload.
BuiltPayload(r, i) ==
    /\ attempts[r][i].channel \in {"slack", "mattermost"}
    /\ attempts[r][i].outcome \in {"sent", "error"}

\* The colour or icon the shared policy gives a status argument.
Presentation(channel, status) ==
    IF channel = "slack"
    THEN (IF status = "Success" THEN "#36a64f"
          ELSE IF status = "Failed" THEN "#ff0000" ELSE "#808080")
    ELSE (IF status = "Success" THEN ":white_check_mark:"
          ELSE IF status = "Failed" THEN ":x:" ELSE ":grey_question:")

\* C14: the colour or icon of a Slack or Mattermost payload is the one of the
\* status passed to send_notifications, and the project name and status it
\* shows are the arguments of that call.
C14_PresentationFollowsStatus ==
    \A r \in Requests :
        \A i \in 1..Len(attempts[r]) :
            BuiltPayload(r, i) =>
                LET a == attempts[r][i]
                    arg == notified[r][a.call].status
                IN  /\ a.mark = Presentation(a.channel, arg)
                    /\ a.project_name = Config(r).name
                    /\ a.status = <<arg>>

\* C15: the details block of a Slack or Mattermost payload contains the whole
\* details text passed to send_notifications.
C15_DetailsBlockComplete ==
    \A r \in Requests :
        \A i \in 1..Len(attempts[r]) :
            BuiltPayload(r, i) =>
                Contains(attempts[r][i].details,
                         notified[r][attempts[r][i].call].details)

----------------------------------------------------------------------------
(* Repetition and outcomes.                                                *)

\* C16: within a request each command is started at most once,
\* send_notifications is called at most once, so that each channel is
\* attempted at most once, and a finished request has one response.
C16_NothingRepeated ==
    \A r \in Requests :
        /\ \A i, j \in 1..Len(started[r]) : started[r][i] = started[r][j] => i = j
        /\ Len(notified[r]) <= 1
        /\ \A i, j \in 1..Len(attempts[r]) :
             attempts[r][i].channel = attempts[r][j].channel => i = j
        /\ Done(r) <=> response[r] # NoResponse

\* C17: an authenticated request ends as 200 Success, 200 Ignored or the 500
\* of the Failed path with its failure details, never with an error from
\* outside that path, and a run whose commands all succeeded is not
\* answered with an error.
C17_DocumentedOutcomesOnly ==
    \A r \in Requests :
        (Done(r) /\ rq[r].authenticated) =>
            /\ \/ response[r] = IgnoredResult
               \/ response[r] = ProcessedResult(Config(r).name, "Success",
                                                rq[r].details)
               \/ /\ rq[r].status = "Failed"
                  /\ response[r] = HTTPException(500, rq[r].details)
            /\ AllSucceeded(r) => response[r].code = 200

\* C18: a request that got past the signature check has its response only
\* after a call of send_notifications in which every configured channel was
\* attempted, and a request whose command has not exited has no response.
C18_ResponseOnlyAfterAllChannels ==
    \A r \in Requests :
        /\ (response[r] # NoResponse /\ rq[r].authenticated) =>
             \E k \in 1..Len(notified[r]) :
                 \A c \in ConfiguredChannels(r) : Attempted(r, k, c)
        /\ rq[r].pc = "running" => response[r] = NoResponse

----------------------------------------------------------------------------
(* The registry.                                                           *)

\* C19: whatever webhook and health requests were served and however they
\* ended, PROJECTS and every field of every project are as they were at
\* startup.
C19_RegistryUnchanged == PROJECTS = Registry

\* A delivery ended in an error and a health request found the file readable.
C19_Witness ==
    /\ Done(1)
    /\ response[1].code \in {401, 404, 500}
    /\ health = HealthyResult

====
